---- MODULE Spec2Model ----
(***************************************************************************)
(* Model of SVGValidator (client/src/lib/mf-schema/tools/validator.py):    *)
(* the validate() pipeline over one pictogram document, its findings, and  *)
(* the validator instance's fields across successive calls.                *)
(***************************************************************************)
EXTENDS Integers, Sequences, FiniteSets, TLC

VARIABLES doc, env, pc, exc, tree, metadata, errors, warnings, heap, returned

vars == <<doc, env, pc, exc, tree, metadata, errors, warnings, heap, returned>>

(* ---------------------------------------------------------------------- *)
(* Bounds of the model                                                     *)
(* ---------------------------------------------------------------------- *)
MaxCalls == 2
MaxGroups == 2
MaxConcepts == 2

(* ---------------------------------------------------------------------- *)
(* Values                                                                  *)
(* ---------------------------------------------------------------------- *)

\* NS['svg']
SvgNs == "http://www.w3.org/2000/svg"

\* An attribute lookup element.get(name): absent (None) or a string.
NoAttr == [has |-> FALSE, v |-> ""]
Attr(s) == [has |-> TRUE, v |-> s]

\* Python truthiness of element.get(name): None and "" are falsy.
AttrTruthy(a) == a.has /\ a.v # ""

\* One entry of errors / warnings: the message template (k) and its
\* interpolated arguments (a, b, i).
F(k, a, b, i) == [k |-> k, a |-> a, b |-> b, i |-> i]

NoExc == [type |-> "none", msg |-> F("", "", "", 0)]
Raise(type, f) == [type |-> type, msg |-> f]

\* The result of running one stage: what it appended to errors and to
\* warnings, and the exception it raised (if any).
Out(e, w, x) == [errs |-> e, warns |-> w, exc |-> x]

\* str.strip() over the text values of the model: " " is whitespace only.
Strip(s) == IF s = " " THEN "" ELSE s

\* `not text or not text.strip()`
Blank(s) == s = "" \/ Strip(s) = ""

(* ---------------------------------------------------------------------- *)
(* _parse_svg                                                              *)
(* ---------------------------------------------------------------------- *)

\* root.tag as ElementTree builds it: "{ns}local", or "local" without ns.
IsSvgRoot(tag) == tag.local = "svg" /\ tag.ns \in {SvgNs, ""}

\* ParseOutcome with the root check recording its error instead of raising.
ParseOutcomeRecordsBadRoot(d) ==
    IF d.file = "malformed"
    THEN Out(<<>>, <<>>, Raise("ValidationError", F("XML parsing error", "", "", 0)))
    ELSE IF d.file = "missing"
    THEN Out(<<>>, <<>>, Raise("ValidationError", F("File not found", "", "", 0)))
    ELSE IF d.file = "unreadable"
    THEN Out(<<>>, <<>>, Raise("Exception", F("OSError", "", "", 0)))
    ELSE IF ~IsSvgRoot(d.rootTag)
    THEN Out(<<F("Root element must be <svg>", d.rootTag.ns, d.rootTag.local, 0)>>, <<>>, NoExc)
    ELSE Out(<<>>, <<>>, NoExc)

ParseOutcome(d) ==
    IF d.file = "malformed"
    THEN Out(<<>>, <<>>, Raise("ValidationError", F("XML parsing error", "", "", 0)))
    ELSE IF d.file = "missing"
    THEN Out(<<>>, <<>>, Raise("ValidationError", F("File not found", "", "", 0)))
    ELSE IF d.file = "unreadable"
    THEN Out(<<>>, <<>>, Raise("Exception", F("OSError", "", "", 0)))
    ELSE IF ~IsSvgRoot(d.rootTag)
    THEN Out(<<>>, <<>>, Raise("ValidationError",
                 F("Root element must be <svg>", d.rootTag.ns, d.rootTag.local, 0)))
    ELSE Out(<<>>, <<>>, NoExc)

(* ---------------------------------------------------------------------- *)
(* _check_root_attributes                                                  *)
(* ---------------------------------------------------------------------- *)

\* One iteration of the loop over a required_attrs dict; expected = "" is
\* the dict's None ("must exist but value varies").
RequiredAttrError(kindMissing, kindWrong, who, attr, expected, actual) ==
    IF ~actual.has
    THEN <<F(kindMissing, who, attr, 0)>>
    ELSE IF expected # "" /\ actual.v # expected
    THEN <<F(kindWrong, who, attr, 0)>>
    ELSE <<>>

RootAttributeErrors(d) ==
    RequiredAttrError("Missing required attribute on <svg>",
                      "Incorrect value for <svg> attribute", "svg",
                      "role", "img", d.role)
    \o RequiredAttrError("Missing required attribute on <svg>",
                         "Incorrect value for <svg> attribute", "svg",
                         "aria-labelledby", "", d.labelledby)

\* ElementTree never keeps xmlns declarations in root.attrib, so the outer
\* test always passes and the warning depends on the tag alone.
RootAttributeWarnings(d) ==
    IF d.rootTag.ns # SvgNs
    THEN <<F("SVG namespace not explicitly declared", "", "", 0)>>
    ELSE <<>>

CheckRootOutcome(d) == Out(RootAttributeErrors(d), RootAttributeWarnings(d), NoExc)

(* ---------------------------------------------------------------------- *)
(* _check_title_and_desc                                                   *)
(* ---------------------------------------------------------------------- *)

TextElemErrors(name, el) ==
    IF ~el.present
    THEN <<F("Missing required element", name, "", 0)>>
    ELSE IF Blank(el.text)
    THEN <<F("element is empty", name, "", 0)>>
    ELSE <<>>

TextElemWarnings(name, el) ==
    IF el.present /\ ~AttrTruthy(el.id)
    THEN <<F("should have an 'id' attribute", name, "", 0)>>
    ELSE <<>>

CheckTitleDescOutcome(d) ==
    Out(TextElemErrors("title", d.title) \o TextElemErrors("desc", d.desc),
        TextElemWarnings("title", d.title) \o TextElemWarnings("desc", d.desc),
        NoExc)

(* ---------------------------------------------------------------------- *)
(* Decoded metadata (the value json.loads returns)                         *)
(* ---------------------------------------------------------------------- *)

required_fields == <<"version", "utterance", "nsm", "concepts", "provenance">>

\* A concepts entry that is not a JSON object (a number, a string, ...).
NonObjectEntry ==
    [t |-> "other", role |-> NoAttr, hasLabel |-> FALSE, id |-> NoAttr, implicit |-> "absent"]

\* A concepts entry that is a JSON object; implicit is "absent", "false" or
\* "true".
Concept(role, hasLabel, id, implicit) ==
    [t |-> "obj", role |-> role, hasLabel |-> hasLabel, id |-> id, implicit |-> implicit]

\* concept.get('implicit', False) used as a condition
IsImplicit(c) == c.implicit = "true"

\* concept.get('role', 'unknown')
RoleOf(c) == IF c.role.has THEN c.role.v ELSE "unknown"

\* The value under the "concepts" key: t is its JSON type, n its len() where
\* it has one, items its entries when it is an array.
ConceptsValue(t, n, items) == [t |-> t, n |-> n, items |-> items]
NoConcepts == ConceptsValue("null", 0, <<>>)

\* A decoded JSON value at the top of the metadata: t is its JSON type,
\* truthy its Python truth value, keys the required field names for which
\* `name in value` is true (keys of an object, elements of an array,
\* substrings of a string), concepts the value under "concepts" of an object.
Json(t, truthy, keys, concepts) ==
    [t |-> t, truthy |-> truthy, keys |-> keys, concepts |-> concepts]
JsonNone == Json("null", FALSE, {}, NoConcepts)

\* `name in value` raises TypeError for None, booleans and numbers.
SupportsIn(m) == m.t \in {"obj", "arr", "str"}

\* json.loads over the text of the metadata element
JsonLoads(text) ==
    IF text.kind = "json"
    THEN [ok |-> TRUE, value |-> text.value]
    ELSE [ok |-> FALSE, value |-> JsonNone]

(* ---------------------------------------------------------------------- *)
(* _validate_metadata_basic                                                *)
(* ---------------------------------------------------------------------- *)

RECURSIVE MissingFieldErrors(_, _)
MissingFieldErrors(m, k) ==
    IF k > Len(required_fields) THEN <<>>
    ELSE (IF required_fields[k] \notin m.keys
          THEN <<F("Missing required metadata field", required_fields[k], "", 0)>>
          ELSE <<>>) \o MissingFieldErrors(m, k + 1)

BasicConceptErrors(c, i) ==
    IF c.t # "obj"
    THEN <<F("metadata.concepts[i] must be an object", "", "", i)>>
    ELSE (IF ~c.role.has
          THEN <<F("Missing required field in metadata.concepts[i]", "role", "", i)>>
          ELSE <<>>)
         \o (IF ~c.hasLabel
             THEN <<F("Missing required field in metadata.concepts[i]", "label", "", i)>>
             ELSE <<>>)
         \o (IF ~IsImplicit(c) /\ ~c.id.has
             THEN <<F("Missing required field 'id' in metadata.concepts[i]", RoleOf(c), "", i)>>
             ELSE <<>>)

RECURSIVE BasicConceptsLoop(_, _)
BasicConceptsLoop(items, k) ==
    IF k > Len(items) THEN <<>>
    ELSE BasicConceptErrors(items[k], k - 1) \o BasicConceptsLoop(items, k + 1)

BasicConceptsErrors(cv) ==
    IF cv.t # "arr"
    THEN <<F("metadata.concepts must be an array", "", "", 0)>>
    ELSE IF Len(cv.items) = 0
    THEN <<F("metadata.concepts array is empty", "", "", 0)>>
    ELSE BasicConceptsLoop(cv.items, 1)

TypeError == Raise("Exception", F("TypeError", "", "", 0))
AttributeError == Raise("Exception", F("AttributeError", "", "", 0))

ValidateMetadataBasic(m) ==
    IF ~SupportsIn(m)
    THEN Out(<<>>, <<>>, TypeError)
    ELSE IF "concepts" \notin m.keys
    THEN Out(MissingFieldErrors(m, 1), <<>>, NoExc)
    ELSE IF m.t # "obj"
    THEN Out(MissingFieldErrors(m, 1), <<>>, TypeError)
    ELSE Out(MissingFieldErrors(m, 1) \o BasicConceptsErrors(m.concepts), <<>>, NoExc)

(* ---------------------------------------------------------------------- *)
(* _validate_metadata_schema                                               *)
(* ---------------------------------------------------------------------- *)

\* Prepend a warning to what a nested call produced.
WithWarning(w, out) == Out(out.errs, <<w>> \o out.warns, out.exc)

\* ValidateMetadataSchema returning after the warning, without the basic
\* strategy, when the schema file does not exist.
ValidateMetadataSchemaSkipsBasic(e, m) ==
    IF e.schemaFile = "missing"
    THEN Out(<<>>, <<F("Schema file not found", "", "", 0)>>, NoExc)
    ELSE IF e.schemaFile = "unreadable"
    THEN WithWarning(F("Could not load schema", "", "", 0), ValidateMetadataBasic(m))
    ELSE IF e.verdict = "violation"
    THEN Out(<<F("Metadata schema validation error", "", "", 0)>>, <<>>, NoExc)
    ELSE IF e.verdict = "error"
    THEN Out(<<F("Metadata validation error", "", "", 0)>>, <<>>, NoExc)
    ELSE Out(<<>>, <<>>, NoExc)

\* e.schemaFile: "missing", "unreadable" or "ok"; e.verdict: what
\* jsonschema.validate does with the loaded schema ("conforms", a
\* "violation" it raises as ValidationError, or another "error" it raises).
ValidateMetadataSchema(e, m) ==
    IF e.schemaFile = "missing"
    THEN WithWarning(F("Schema file not found", "", "", 0), ValidateMetadataBasic(m))
    ELSE IF e.schemaFile = "unreadable"
    THEN WithWarning(F("Could not load schema", "", "", 0), ValidateMetadataBasic(m))
    ELSE IF e.verdict = "violation"
    THEN Out(<<F("Metadata schema validation error", "", "", 0)>>, <<>>, NoExc)
    ELSE IF e.verdict = "error"
    THEN Out(<<F("Metadata validation error", "", "", 0)>>, <<>>, NoExc)
    ELSE Out(<<>>, <<>>, NoExc)

(* ---------------------------------------------------------------------- *)
(* _extract_and_validate_metadata                                          *)
(* ---------------------------------------------------------------------- *)

MetadataIdWarnings(el) ==
    IF el.id # Attr("mf-accessibility")
    THEN <<F("<metadata> id should be 'mf-accessibility'", el.id.v, "", 0)>>
    ELSE <<>>

\* Lines 177-182: the strategy chosen by JSONSCHEMA_AVAILABLE.
ValidateDecoded(e, m) ==
    IF e.jsonschema
    THEN ValidateMetadataSchema(e, m)
    ELSE WithWarning(F("Skipping JSON schema validation (jsonschema not installed)", "", "", 0),
                     ValidateMetadataBasic(m))

\* ExtractOutcome with the JSON decoding error recorded instead of raised.
ExtractOutcomeRecordsBadJson(e, d) ==
    IF ~d.meta.present
    THEN Out(<<>>, <<>>,
             Raise("ValidationError", F("Missing required <metadata> element", "", "", 0)))
    ELSE IF d.meta.text.kind \in {"none", "blank"}
    THEN Out(<<>>, MetadataIdWarnings(d.meta),
             Raise("ValidationError", F("<metadata> element is empty", "", "", 0)))
    ELSE IF ~JsonLoads(d.meta.text).ok
    THEN Out(<<F("Invalid JSON in <metadata>", "", "", 0)>>, MetadataIdWarnings(d.meta), NoExc)
    ELSE LET v == ValidateDecoded(e, JsonLoads(d.meta.text).value)
         IN  Out(v.errs, MetadataIdWarnings(d.meta) \o v.warns, v.exc)

ExtractOutcome(e, d) ==
    IF ~d.meta.present
    THEN Out(<<>>, <<>>,
             Raise("ValidationError", F("Missing required <metadata> element", "", "", 0)))
    ELSE IF d.meta.text.kind \in {"none", "blank"}
    THEN Out(<<>>, MetadataIdWarnings(d.meta),
             Raise("ValidationError", F("<metadata> element is empty", "", "", 0)))
    ELSE IF ~JsonLoads(d.meta.text).ok
    THEN Out(<<>>, MetadataIdWarnings(d.meta),
             Raise("ValidationError", F("Invalid JSON in <metadata>", "", "", 0)))
    ELSE LET v == ValidateDecoded(e, JsonLoads(d.meta.text).value)
         IN  Out(v.errs, MetadataIdWarnings(d.meta) \o v.warns, v.exc)

\* Whether the stage assigns self.metadata (line 173 reached without raising).
ExtractDecodes(d) ==
    d.meta.present /\ d.meta.text.kind \notin {"none", "blank"} /\ JsonLoads(d.meta.text).ok

(* ---------------------------------------------------------------------- *)
(* _check_embedded_stylesheet                                              *)
(* ---------------------------------------------------------------------- *)

required_classes == <<".f", ".k">>

\* d.style.has: which of the looked-for substrings the style text contains.
StylesheetWarnings(d) ==
    IF ~d.style.defs
    THEN <<F("No <defs> element found; embedded stylesheet recommended", "", "", 0)>>
    ELSE IF ~d.style.style
    THEN <<F("No <style> element in <defs>; embedded stylesheet recommended", "", "", 0)>>
    ELSE (IF required_classes[1] \notin d.style.has
          THEN <<F("Embedded stylesheet should define class", required_classes[1], "", 0)>>
          ELSE <<>>)
         \o (IF required_classes[2] \notin d.style.has
             THEN <<F("Embedded stylesheet should define class", required_classes[2], "", 0)>>
             ELSE <<>>)
         \o (IF "@media (prefers-contrast: high)" \notin d.style.has
             THEN <<F("Embedded stylesheet should include", "@media (prefers-contrast: high)", "", 0)>>
             ELSE <<>>)
         \o (IF "@media (forced-colors: active)" \notin d.style.has
             THEN <<F("Embedded stylesheet should include", "@media (forced-colors: active)", "", 0)>>
             ELSE <<>>)

CheckStylesheetOutcome(d) == Out(<<>>, StylesheetWarnings(d), NoExc)

(* ---------------------------------------------------------------------- *)
(* _check_semantic_groups                                                  *)
(* ---------------------------------------------------------------------- *)

\* A <g> element of the document: whether its tag is in the SVG namespace,
\* and its id, data-concept, role, tabindex and aria-label attributes.
Group(ns, id, dc, role, tabindex, label) ==
    [ns |-> ns, id |-> id, dc |-> dc, role |-> role, tabindex |-> tabindex, label |-> label]

IsNsGroup(g) == g.ns
IsPlainGroup(g) == ~g.ns

\* root.findall('.//svg:g', NS), and only when that is empty
\* root.findall('.//g'): d.groups is every <g> in document order.
FindGroups(d) ==
    IF SelectSeq(d.groups, IsNsGroup) # <<>>
    THEN SelectSeq(d.groups, IsNsGroup)
    ELSE SelectSeq(d.groups, IsPlainGroup)

\* group.get('id', f'(unnamed group {i})')
GroupId(g) == IF g.id.has THEN g.id.v ELSE "(unnamed group i)"

GroupWarnings(g, i) ==
    IF ~g.dc.has /\ g.role = Attr("group")
    THEN <<F("Group has role='group' but no data-concept attribute", GroupId(g), "", i)>>
    ELSE <<>>

GroupErrors(g, i) ==
    IF AttrTruthy(g.dc)
    THEN RequiredAttrError("Semantic group missing required attribute",
                           "Semantic group attribute has wrong value",
                           GroupId(g), "role", "group", g.role)
         \o RequiredAttrError("Semantic group missing required attribute",
                              "Semantic group attribute has wrong value",
                              GroupId(g), "tabindex", "0", g.tabindex)
         \o RequiredAttrError("Semantic group missing required attribute",
                              "Semantic group attribute has wrong value",
                              GroupId(g), "aria-label", "", g.label)
    ELSE <<>>

RECURSIVE GroupsLoopErrors(_, _)
GroupsLoopErrors(gs, k) ==
    IF k > Len(gs) THEN <<>>
    ELSE GroupErrors(gs[k], k - 1) \o GroupsLoopErrors(gs, k + 1)

RECURSIVE GroupsLoopWarnings(_, _)
GroupsLoopWarnings(gs, k) ==
    IF k > Len(gs) THEN <<>>
    ELSE GroupWarnings(gs[k], k - 1) \o GroupsLoopWarnings(gs, k + 1)

CheckGroupsOutcome(d) ==
    IF FindGroups(d) = <<>>
    THEN Out(<<>>, <<F("No <g> elements found; semantic grouping recommended", "", "", 0)>>, NoExc)
    ELSE Out(GroupsLoopErrors(FindGroups(d), 1), GroupsLoopWarnings(FindGroups(d), 1), NoExc)

(* ---------------------------------------------------------------------- *)
(* _check_concept_group_correspondence                                     *)
(* ---------------------------------------------------------------------- *)

\* {g.get('id') for g in groups if g.get('id')}
GroupIds(d) ==
    {FindGroups(d)[k].id.v : k \in {j \in 1..Len(FindGroups(d)) : AttrTruthy(FindGroups(d)[j].id)}}

\* ConceptOutcome without the membership test of lines 350-353.
ConceptOutcomeNoMembership(c, ids) ==
    IF IsImplicit(c)
    THEN (IF AttrTruthy(c.id)
          THEN Out(<<>>, <<F("Concept is marked as implicit but has an 'id' field", c.id.v, "", 0)>>, NoExc)
          ELSE Out(<<>>, <<>>, NoExc))
    ELSE IF ~AttrTruthy(c.id)
    THEN Out(<<F("Concept is not marked as implicit but has no 'id' field", RoleOf(c), "", 0)>>,
             <<>>, NoExc)
    ELSE Out(<<>>, <<>>, NoExc)

\* ConceptOutcome with the stray id of an implicit concept appended to
\* errors instead of warnings.
ConceptOutcomeStrayIdError(c, ids) ==
    IF IsImplicit(c)
    THEN (IF AttrTruthy(c.id)
          THEN Out(<<F("Concept is marked as implicit but has an 'id' field", c.id.v, "", 0)>>, <<>>, NoExc)
          ELSE Out(<<>>, <<>>, NoExc))
    ELSE IF ~AttrTruthy(c.id)
    THEN Out(<<F("Concept is not marked as implicit but has no 'id' field", RoleOf(c), "", 0)>>,
             <<>>, NoExc)
    ELSE IF c.id.v \notin ids
    THEN Out(<<F("Metadata concept has no corresponding <g> element in the SVG", c.id.v, "", 0)>>,
             <<>>, NoExc)
    ELSE Out(<<>>, <<>>, NoExc)

\* The loop body for one entry that is an object.
ConceptOutcome(c, ids) ==
    IF IsImplicit(c)
    THEN (IF AttrTruthy(c.id)
          THEN Out(<<>>, <<F("Concept is marked as implicit but has an 'id' field", c.id.v, "", 0)>>, NoExc)
          ELSE Out(<<>>, <<>>, NoExc))
    ELSE IF ~AttrTruthy(c.id)
    THEN Out(<<F("Concept is not marked as implicit but has no 'id' field", RoleOf(c), "", 0)>>,
             <<>>, NoExc)
    ELSE IF c.id.v \notin ids
    THEN Out(<<F("Metadata concept has no corresponding <g> element in the SVG", c.id.v, "", 0)>>,
             <<>>, NoExc)
    ELSE Out(<<>>, <<>>, NoExc)

\* The loop over the entries: concept.get on an entry that is not an object
\* raises AttributeError and ends the loop.
RECURSIVE ConceptsLoop(_, _, _)
ConceptsLoop(items, k, ids) ==
    IF k > Len(items) THEN Out(<<>>, <<>>, NoExc)
    ELSE IF items[k].t # "obj" THEN Out(<<>>, <<>>, AttributeError)
    ELSE LET here == ConceptOutcome(items[k], ids)
             rest == ConceptsLoop(items, k + 1, ids)
         IN  Out(here.errs \o rest.errs, here.warns \o rest.warns, rest.exc)

\* `for concept in self.metadata['concepts']` over a value of any JSON type.
IterateConcepts(cv, ids) ==
    IF cv.t = "arr" THEN ConceptsLoop(cv.items, 1, ids)
    ELSE IF cv.t \in {"str", "obj"}
    THEN (IF cv.n = 0 THEN Out(<<>>, <<>>, NoExc) ELSE Out(<<>>, <<>>, AttributeError))
    ELSE Out(<<>>, <<>>, TypeError)

\* md is the instance's metadata field: [set |-> FALSE] while it is None.
CheckCorrespondenceOutcome(md, d) ==
    IF ~md.set \/ ~md.v.truthy
    THEN Out(<<>>, <<>>, NoExc)
    ELSE IF ~SupportsIn(md.v)
    THEN Out(<<>>, <<>>, TypeError)
    ELSE IF "concepts" \notin md.v.keys
    THEN Out(<<>>, <<>>, NoExc)
    ELSE IF md.v.t # "obj"
    THEN Out(<<>>, <<>>, TypeError)
    ELSE IterateConcepts(md.v.concepts, GroupIds(d))

(* ---------------------------------------------------------------------- *)
(* SVGValidator: the instance and validate()                               *)
(* ---------------------------------------------------------------------- *)

\* self.metadata = None
MetadataNone == [set |-> FALSE, v |-> JsonNone]

\* list.append of each finding of a stage onto the two lists the instance's
\* errors and warnings fields refer to.
AppendFindings(h, e, w, out) ==
    [h EXCEPT ![e] = @ \o out.errs, ![w] = @ \o out.warns]

\* `self.errors = []; self.warnings = []`: two new list objects.
FreshLists(h) == h \o << <<>>, <<>> >>

\* The lists a completed call handed back.
ReturnedErrors(i) == heap[returned[i].errors]
ReturnedWarnings(i) == heap[returned[i].warnings]

\* Run one stage of the try block: append its findings, then either go on to
\* the next statement or leave the block with the exception it raised.
Stage(at, next, out) ==
    /\ pc = at
    /\ heap' = AppendFindings(heap, errors, warnings, out)
    /\ exc' = out.exc
    /\ pc' = IF out.exc.type = "none" THEN next ELSE "except"

\* __init__ of another validator for the same svg_path and schema_path,
\* once the current one has been used.
Construct ==
    /\ pc = "idle"
    /\ returned # <<>>
    /\ Len(returned) < MaxCalls
    /\ returned[Len(returned)].errors = errors
    /\ tree' = FALSE
    /\ metadata' = MetadataNone
    /\ heap' = FreshLists(heap)
    /\ errors' = Len(heap) + 1
    /\ warnings' = Len(heap) + 2
    /\ UNCHANGED <<doc, env, pc, exc, returned>>

\* ValidateBegin emptying the instance's two lists in place (list.clear())
\* instead of binding new ones.
ValidateBeginClearsInPlace ==
    /\ pc = "idle"
    /\ Len(returned) < MaxCalls
    /\ heap' = [heap EXCEPT ![errors] = <<>>, ![warnings] = <<>>]
    /\ pc' = "parse"
    /\ UNCHANGED <<doc, env, exc, tree, metadata, errors, warnings, returned>>

\* validate(), lines 67-68
ValidateBegin ==
    /\ pc = "idle"
    /\ Len(returned) < MaxCalls
    /\ heap' = FreshLists(heap)
    /\ errors' = Len(heap) + 1
    /\ warnings' = Len(heap) + 2
    /\ pc' = "parse"
    /\ UNCHANGED <<doc, env, exc, tree, metadata, returned>>

ParseSvg ==
    /\ Stage("parse", "root", ParseOutcome(doc))
    /\ tree' = IF doc.file = "ok" THEN TRUE ELSE tree
    /\ UNCHANGED <<doc, env, metadata, errors, warnings, returned>>

CheckRootAttributes ==
    /\ Stage("root", "title", CheckRootOutcome(doc))
    /\ UNCHANGED <<doc, env, tree, metadata, errors, warnings, returned>>

CheckTitleAndDesc ==
    /\ Stage("title", "metadata", CheckTitleDescOutcome(doc))
    /\ UNCHANGED <<doc, env, tree, metadata, errors, warnings, returned>>

ExtractAndValidateMetadata ==
    /\ Stage("metadata", "stylesheet", ExtractOutcome(env, doc))
    /\ metadata' = IF ExtractDecodes(doc)
                   THEN [set |-> TRUE, v |-> JsonLoads(doc.meta.text).value]
                   ELSE metadata
    /\ UNCHANGED <<doc, env, tree, errors, warnings, returned>>

CheckEmbeddedStylesheet ==
    /\ Stage("stylesheet", "groups", CheckStylesheetOutcome(doc))
    /\ UNCHANGED <<doc, env, tree, metadata, errors, warnings, returned>>

CheckSemanticGroups ==
    /\ Stage("groups", "correspondence", CheckGroupsOutcome(doc))
    /\ UNCHANGED <<doc, env, tree, metadata, errors, warnings, returned>>

CheckConceptGroupCorrespondence ==
    /\ Stage("correspondence", "return", CheckCorrespondenceOutcome(metadata, doc))
    /\ UNCHANGED <<doc, env, tree, metadata, errors, warnings, returned>>

\* except ValidationError as e: self.errors.append(str(e))
CatchValidationError ==
    /\ pc = "except"
    /\ exc.type = "ValidationError"
    /\ heap' = [heap EXCEPT ![errors] = Append(@, exc.msg)]
    /\ exc' = NoExc
    /\ pc' = "return"
    /\ UNCHANGED <<doc, env, tree, metadata, errors, warnings, returned>>

\* except Exception as e: self.errors.append(f"Unexpected error: {e}")
CatchException ==
    /\ pc = "except"
    /\ exc.type = "Exception"
    /\ heap' = [heap EXCEPT ![errors] = Append(@, F("Unexpected error", exc.msg.k, "", 0))]
    /\ exc' = NoExc
    /\ pc' = "return"
    /\ UNCHANGED <<doc, env, tree, metadata, errors, warnings, returned>>

\* Lines 83-84: the tuple holds the two list objects themselves.
Return ==
    /\ pc = "return"
    /\ returned' = Append(returned, [is_valid |-> Len(heap[errors]) = 0,
                                     errors |-> errors, warnings |-> warnings])
    /\ pc' = "idle"
    /\ UNCHANGED <<doc, env, exc, tree, metadata, errors, warnings, heap>>

Next ==
    \/ Construct
    \/ ValidateBegin
    \/ ParseSvg
    \/ CheckRootAttributes
    \/ CheckTitleAndDesc
    \/ ExtractAndValidateMetadata
    \/ CheckEmbeddedStylesheet
    \/ CheckSemanticGroups
    \/ CheckConceptGroupCorrespondence
    \/ CatchValidationError
    \/ CatchException
    \/ Return

\* The state after SVGValidator.__init__
Constructed ==
    /\ pc = "idle"
    /\ exc = NoExc
    /\ tree = FALSE
    /\ metadata = MetadataNone
    /\ heap = << <<>>, <<>> >>
    /\ errors = 1
    /\ warnings = 2
    /\ returned = <<>>

(* ---------------------------------------------------------------------- *)
(* Inputs: the documents and environments the calls are made on            *)
(* ---------------------------------------------------------------------- *)

SeqsUpTo(S, n) == UNION {[1..k -> S] : k \in 0..n}

NsSvgTag == [ns |-> SvgNs, local |-> "svg"]
PlainSvgTag == [ns |-> "", local |-> "svg"]
SvgTags == {NsSvgTag, PlainSvgTag}
OtherTags == {[ns |-> "", local |-> "html"], [ns |-> SvgNs, local |-> "g"]}

Roles == {NoAttr, Attr("img"), Attr("presentation")}
Labelledbys == {NoAttr, Attr(""), Attr("t d")}

TextElem(present, text, id) == [present |-> present, text |-> text, id |-> id]
AbsentElem == TextElem(FALSE, "", NoAttr)
GoodElem == TextElem(TRUE, "Bed", Attr("t"))
TextElems ==
    {AbsentElem} \cup [present : {TRUE}, text : {"", " ", "Bed"}, id : {NoAttr, Attr(""), Attr("t")}]
AdvisoryElems == {GoodElem, TextElem(TRUE, "Bed", NoAttr)}

StyleTokens == {".f", ".k", "@media (prefers-contrast: high)", "@media (forced-colors: active)"}
Style(defs, style, has) == [defs |-> defs, style |-> style, has |-> has]
NoDefs == Style(FALSE, FALSE, {})
FullStyle == Style(TRUE, TRUE, StyleTokens)
Styles == {NoDefs, Style(TRUE, FALSE, {})} \cup [defs : {TRUE}, style : {TRUE}, has : SUBSET StyleTokens]

GoodGroup == Group(TRUE, Attr("bed"), Attr("bed"), Attr("group"), Attr("0"), Attr("bed"))
PlainGoodGroup == Group(FALSE, Attr("chair"), Attr("chair"), Attr("group"), Attr("0"), Attr("chair"))
UntaggedGroup == Group(TRUE, Attr("bed"), NoAttr, Attr("group"), NoAttr, NoAttr)
DecorativeGroup == Group(TRUE, NoAttr, NoAttr, NoAttr, NoAttr, NoAttr)
GroupKinds ==
    { GoodGroup, PlainGoodGroup, UntaggedGroup, DecorativeGroup,
      Group(TRUE, Attr("bed"), Attr("bed"), NoAttr, Attr("0"), Attr("bed")),
      Group(TRUE, Attr("bed"), Attr("bed"), Attr("group"), Attr("1"), Attr("bed")),
      Group(TRUE, Attr("bed"), Attr("bed"), Attr("group"), Attr("0"), Attr("")),
      Group(TRUE, NoAttr, Attr("bed"), Attr("group"), Attr("0"), NoAttr),
      Group(TRUE, Attr("bed"), Attr(""), NoAttr, NoAttr, NoAttr),
      Group(FALSE, NoAttr, Attr("x"), NoAttr, NoAttr, NoAttr) }
AdvisoryGroupKinds == {GoodGroup, PlainGoodGroup, UntaggedGroup, DecorativeGroup}

GoodConcept == Concept(Attr("theme"), TRUE, Attr("bed"), "absent")
ImplicitConcept == Concept(Attr("agent"), TRUE, NoAttr, "true")
ImplicitWithId == Concept(Attr("agent"), TRUE, Attr("bed"), "true")
EntryKinds ==
    { GoodConcept, ImplicitConcept, ImplicitWithId, NonObjectEntry,
      Concept(Attr("theme"), TRUE, Attr("chair"), "false"),
      Concept(Attr("theme"), TRUE, NoAttr, "absent"),
      Concept(Attr("theme"), TRUE, Attr(""), "false"),
      Concept(NoAttr, FALSE, Attr("bed"), "absent") }
AdvisoryEntryKinds ==
    {GoodConcept, ImplicitConcept, ImplicitWithId, Concept(Attr("theme"), TRUE, Attr("chair"), "false")}

AllFields == {required_fields[k] : k \in 1..Len(required_fields)}
KeySets ==
    {AllFields, AllFields \ {"provenance"}, {"concepts"}, AllFields \ {"concepts"}, {}}

ArrayOf(items) == ConceptsValue("arr", Len(items), items)
ConceptsValues(entries) ==
    { ConceptsValue("null", 0, <<>>), ConceptsValue("num", 0, <<>>),
      ConceptsValue("str", 0, <<>>), ConceptsValue("str", 3, <<>>),
      ConceptsValue("obj", 0, <<>>), ConceptsValue("obj", 1, <<>>) }
    \cup {ArrayOf(items) : items \in SeqsUpTo(entries, MaxConcepts)}

Objects(keySets, entries) ==
    {Json("obj", TRUE, ks, NoConcepts) : ks \in {k \in keySets : "concepts" \notin k}}
    \cup {Json("obj", TRUE, ks[1], ks[2]) :
            ks \in {k \in keySets : "concepts" \in k} \X ConceptsValues(entries)}

NonObjects ==
    { JsonNone, Json("bool", TRUE, {}, NoConcepts), Json("bool", FALSE, {}, NoConcepts),
      Json("num", FALSE, {}, NoConcepts), Json("num", TRUE, {}, NoConcepts),
      Json("str", FALSE, {}, NoConcepts), Json("str", TRUE, {}, NoConcepts),
      Json("str", TRUE, {"concepts"}, NoConcepts), Json("str", TRUE, AllFields, NoConcepts),
      Json("arr", FALSE, {}, NoConcepts), Json("arr", TRUE, {}, NoConcepts),
      Json("arr", TRUE, {"concepts"}, NoConcepts), Json("obj", FALSE, {}, NoConcepts) }

GoodJson(items) == Json("obj", TRUE, AllFields, ArrayOf(items))

MetaElem(present, id, kind, value) ==
    [present |-> present, id |-> id, text |-> [kind |-> kind, value |-> value]]
NoMeta == MetaElem(FALSE, NoAttr, "none", JsonNone)
MetaJson(id, value) == MetaElem(TRUE, id, "json", value)
GoodMeta == MetaJson(Attr("mf-accessibility"), GoodJson(<<GoodConcept>>))
BrokenMetas ==
    {NoMeta} \cup
    {MetaElem(TRUE, id, kind, JsonNone) :
        id \in {Attr("mf-accessibility"), NoAttr}, kind \in {"none", "blank", "malformed"}}

Env(jsonschema, schemaFile, verdict) ==
    [jsonschema |-> jsonschema, schemaFile |-> schemaFile, verdict |-> verdict]
FallbackEnvs ==
    {Env(FALSE, "ok", "conforms"), Env(TRUE, "missing", "conforms"), Env(TRUE, "unreadable", "conforms")}
FullEnvs == {Env(TRUE, "ok", v) : v \in {"conforms", "violation", "error"}}
Envs == FallbackEnvs \cup FullEnvs

Doc(file, rootTag, role, labelledby, title, desc, meta, style, groups) ==
    [file |-> file, rootTag |-> rootTag, role |-> role, labelledby |-> labelledby,
     title |-> title, desc |-> desc, meta |-> meta, style |-> style, groups |-> groups]

\* The end-to-end document of the specification: every required rule met.
GoodDoc ==
    Doc("ok", NsSvgTag, Attr("img"), Attr("t d"), GoodElem, GoodElem, GoodMeta, FullStyle,
        <<GoodGroup>>)

\* Inputs from which no Document comes, and one whose metadata is not an
\* object: present in every family of documents.
CornerDocs ==
    {[GoodDoc EXCEPT !.file = f] : f \in {"malformed", "missing", "unreadable"}}
    \cup {[GoodDoc EXCEPT !.meta = MetaJson(Attr("mf-accessibility"), JsonNone)]}

\* Failing inputs and failing metadata, over documents that break or keep
\* the structural rules.
RoleMissingGroup == Group(TRUE, Attr("bed"), Attr("bed"), NoAttr, Attr("0"), Attr("bed"))
PipelineDocs ==
    CornerDocs \cup
    [file : {"malformed", "missing", "unreadable"}, rootTag : {NsSvgTag},
     role : {Attr("img"), NoAttr}, labelledby : {Attr("t d")},
     title : {GoodElem, AbsentElem}, desc : {GoodElem},
     meta : {NoMeta, GoodMeta}, style : {NoDefs, FullStyle},
     groups : {<<GoodGroup>>, <<RoleMissingGroup>>}]
    \cup
    [file : {"ok"}, rootTag : SvgTags \cup OtherTags,
     role : {Attr("img"), NoAttr}, labelledby : {Attr("t d")},
     title : {GoodElem, AbsentElem, TextElem(TRUE, " ", NoAttr)}, desc : {GoodElem},
     meta : BrokenMetas \cup {GoodMeta}, style : {NoDefs, FullStyle},
     groups : SeqsUpTo({GoodGroup, RoleMissingGroup}, MaxGroups)]

\* Every form of the root attributes, the title and the description.
RootDocs ==
    CornerDocs \cup
    [file : {"ok"}, rootTag : SvgTags, role : Roles, labelledby : Labelledbys,
     title : TextElems, desc : TextElems,
     meta : {GoodMeta, NoMeta}, style : {NoDefs}, groups : {<<GoodGroup>>}]

\* Every sequence of group elements.
GroupDocs ==
    CornerDocs \cup
    [file : {"ok"}, rootTag : SvgTags, role : {Attr("img")}, labelledby : {Attr("t d")},
     title : {GoodElem}, desc : {GoodElem},
     meta : {GoodMeta, MetaJson(NoAttr, GoodJson(<<ImplicitConcept>>)), NoMeta},
     style : {FullStyle}, groups : SeqsUpTo(GroupKinds, MaxGroups)]

\* Documents that meet every required rule, with every advisory deviation:
\* the deviations of the markup over two settings of groups and concepts,
\* and every sequence of groups and of concepts over two stylesheets.
AdvisoryMetas(itemss) ==
    {MetaJson(id, GoodJson(items)) : id \in {Attr("mf-accessibility"), Attr("meta")}, items \in itemss}
AdvisoryMarkupDocs ==
    CornerDocs \cup
    [file : {"ok"}, rootTag : SvgTags, role : {Attr("img")}, labelledby : {Attr("t d")},
     title : AdvisoryElems, desc : AdvisoryElems,
     meta : AdvisoryMetas({<<GoodConcept>>, <<GoodConcept, ImplicitWithId>>}),
     style : Styles, groups : {<<GoodGroup>>, <<UntaggedGroup, GoodGroup>>}]
AdvisoryContentDocs ==
    [file : {"ok"}, rootTag : {NsSvgTag}, role : {Attr("img")}, labelledby : {Attr("t d")},
     title : {GoodElem}, desc : {GoodElem},
     meta : {MetaJson(Attr("mf-accessibility"), GoodJson(items)) :
                items \in SeqsUpTo(AdvisoryEntryKinds, MaxConcepts) \ {<<>>}},
     style : {NoDefs}, groups : SeqsUpTo(AdvisoryGroupKinds, MaxGroups)]

\* Every decoded metadata value.
MetadataDocs ==
    CornerDocs \cup
    [file : {"ok"}, rootTag : {NsSvgTag}, role : {Attr("img")}, labelledby : {Attr("t d")},
     title : {GoodElem}, desc : {GoodElem},
     meta : {MetaJson(Attr("mf-accessibility"), v) : v \in NonObjects \cup Objects(KeySets, EntryKinds)},
     style : {FullStyle},
     groups : {<<>>, <<GoodGroup>>, <<GoodGroup, PlainGoodGroup>>, <<PlainGoodGroup>>}]

InitOn(docs, envs) == doc \in docs /\ env \in envs /\ Constructed

InitPipeline ==
    InitOn(PipelineDocs,
           {Env(FALSE, "ok", "conforms"), Env(TRUE, "ok", "conforms"), Env(TRUE, "ok", "violation")})
InitRoot == InitOn(RootDocs, {Env(TRUE, "ok", "conforms"), Env(FALSE, "ok", "conforms")})
InitGroups == InitOn(GroupDocs, {Env(TRUE, "ok", "conforms"), Env(FALSE, "ok", "conforms")})
InitAdvisory ==
    \/ InitOn(AdvisoryMarkupDocs, FallbackEnvs \cup {Env(TRUE, "ok", "conforms")})
    \/ InitOn(AdvisoryContentDocs, {Env(FALSE, "ok", "conforms"), Env(TRUE, "ok", "conforms")})
InitMetadata == InitOn(MetadataDocs, Envs)

SpecPipeline == InitPipeline /\ [][Next]_vars
SpecRoot == InitRoot /\ [][Next]_vars
SpecGroups == InitGroups /\ [][Next]_vars
SpecAdvisory == InitAdvisory /\ [][Next]_vars
SpecMetadata == InitMetadata /\ [][Next]_vars

Init == InitPipeline \/ InitRoot \/ InitGroups \/ InitAdvisory \/ InitMetadata
Spec == Init /\ [][Next]_vars

(* ---------------------------------------------------------------------- *)
(* Vocabulary of the properties                                            *)
(* ---------------------------------------------------------------------- *)

Calls == DOMAIN returned

\* A Document is produced: the file is read, is well-formed XML and its
\* root is an svg root.
Parses(d) == d.file = "ok" /\ IsSvgRoot(d.rootTag)

Kinds(findings) == {findings[k].k : k \in DOMAIN findings}
CountKind(findings, kinds) == Cardinality({k \in DOMAIN findings : findings[k].k \in kinds})
Entries(findings) == {findings[k] : k \in DOMAIN findings}

\* The metadata element holds non-blank text that does not decode.
MalformedMetadata(d) == d.meta.present /\ d.meta.text.kind = "malformed"

\* The metadata element is absent, empty, or holds undecodable text.
FatalMetadata(d) == ~d.meta.present \/ d.meta.text.kind \in {"none", "blank", "malformed"}

RootKinds == {"Missing required attribute on <svg>", "Incorrect value for <svg> attribute"}
TitleDescKinds == {"Missing required element", "element is empty"}
SchemaKinds ==
    { "Metadata schema validation error", "Metadata validation error",
      "Missing required metadata field", "metadata.concepts must be an array",
      "metadata.concepts array is empty", "metadata.concepts[i] must be an object",
      "Missing required field in metadata.concepts[i]",
      "Missing required field 'id' in metadata.concepts[i]" }
CorrespondenceKinds ==
    { "Concept is not marked as implicit but has no 'id' field",
      "Metadata concept has no corresponding <g> element in the SVG" }
GroupKindsOfError ==
    {"Semantic group missing required attribute", "Semantic group attribute has wrong value"}
FallbackKinds ==
    { "Skipping JSON schema validation (jsonschema not installed)",
      "Schema file not found", "Could not load schema" }

\* The root-attribute and title/description rules as the validator applies
\* them leave no error.
RootAndTitleClean(d) ==
    /\ d.role = Attr("img")
    /\ d.labelledby.has
    /\ d.title.present /\ d.title.text \notin {"", " "}
    /\ d.desc.present /\ d.desc.text \notin {"", " "}

\* The decoded metadata of the document, when it decodes.
Decoded(d) == d.meta.text.value
DecodesToObject(d) ==
    d.meta.present /\ d.meta.text.kind = "json" /\ Decoded(d).t = "obj"
HasConceptsSequence(d) ==
    DecodesToObject(d) /\ "concepts" \in Decoded(d).keys /\ Decoded(d).concepts.t = "arr"
ConceptsOf(d) == Decoded(d).concepts.items

\* The id values carried by the group elements of the document.
AllGroupIds(d) == {d.groups[k].id.v : k \in {j \in DOMAIN d.groups : d.groups[j].id.has}}

(* ---------------------------------------------------------------------- *)
(* C1                                                                      *)
(* ---------------------------------------------------------------------- *)

\* C1: in every completed run on a document that parses and whose metadata
\* element is absent, empty or undecodable, the stylesheet check and the
\* semantic-group check have still run: each of their findings for the
\* document is in the result.
C1_StructuralChecksSurviveFatalMetadata ==
    \A i \in Calls :
        (Parses(doc) /\ FatalMetadata(doc)) =>
            /\ Entries(StylesheetWarnings(doc)) \subseteq Entries(ReturnedWarnings(i))
            /\ Entries(CheckGroupsOutcome(doc).errs) \subseteq Entries(ReturnedErrors(i))
            /\ Entries(CheckGroupsOutcome(doc).warns) \subseteq Entries(ReturnedWarnings(i))

(* ---------------------------------------------------------------------- *)
(* C2                                                                      *)
(* ---------------------------------------------------------------------- *)

\* C2 as stated: for every document that parses and whose metadata text is
\* not decodable JSON, the result is invalid and its errors are exactly the
\* one JSON-decoding error.
C2_MalformedJsonExactlyOneError ==
    \A i \in Calls :
        (Parses(doc) /\ MalformedMetadata(doc)) =>
            /\ ~returned[i].is_valid
            /\ Len(ReturnedErrors(i)) = 1
            /\ ReturnedErrors(i)[1].k = "Invalid JSON in <metadata>"

\* C2 amended: for every document that parses and whose metadata text is
\* not decodable JSON, the result is invalid, its last error is the one
\* JSON-decoding error, every error before it is a finding of the
\* root-attribute or title/description check, no schema, correspondence or
\* semantic-group error is added, and the errors are exactly that one error
\* when the root-attribute and title/description checks find nothing.
C2_MalformedJsonOneFatalError ==
    \A i \in Calls :
        (Parses(doc) /\ MalformedMetadata(doc)) =>
            /\ ~returned[i].is_valid
            /\ Len(ReturnedErrors(i)) >= 1
            /\ ReturnedErrors(i)[Len(ReturnedErrors(i))].k = "Invalid JSON in <metadata>"
            /\ CountKind(ReturnedErrors(i), {"Invalid JSON in <metadata>"}) = 1
            /\ Kinds(ReturnedErrors(i)) \subseteq
                   {"Invalid JSON in <metadata>"} \cup RootKinds \cup TitleDescKinds
            /\ RootAndTitleClean(doc) => Len(ReturnedErrors(i)) = 1

\* A completed run on a document with undecodable metadata, clean root and
\* title, and a semantic group that breaks the group rule.
C2_Witness ==
    /\ returned # <<>>
    /\ Parses(doc) /\ MalformedMetadata(doc) /\ RootAndTitleClean(doc)
    /\ CheckGroupsOutcome(doc).errs # <<>>
    /\ Len(ReturnedErrors(1)) = 1

(* ---------------------------------------------------------------------- *)
(* C5                                                                      *)
(* ---------------------------------------------------------------------- *)

\* C5: an exception raised inside validate() is always one a handler takes
\* (none escapes), and every completed run on an input from which no
\* Document comes (unreadable or missing file, malformed XML, root not an
\* svg root) is invalid with exactly one error, of the parse stage, and no
\* warnings: no later stage has added a finding.
C5_NoDocumentOneError ==
    /\ pc = "except" => exc.type \in {"ValidationError", "Exception"}
    /\ pc # "except" => exc = NoExc
    /\ \A i \in Calls :
        ~Parses(doc) =>
            /\ ~returned[i].is_valid
            /\ Len(ReturnedErrors(i)) = 1
            /\ ReturnedErrors(i)[1].k \in
                   {"XML parsing error", "File not found", "Unexpected error",
                    "Root element must be <svg>"}
            /\ ReturnedWarnings(i) = <<>>

\* A completed run on a well-formed file whose root is not svg and whose
\* content breaks later rules.
C5_Witness ==
    /\ returned # <<>>
    /\ doc.file = "ok" /\ ~IsSvgRoot(doc.rootTag)
    /\ ~doc.role.has /\ ~doc.title.present /\ ~doc.meta.present
    /\ Len(ReturnedErrors(1)) = 1

(* ---------------------------------------------------------------------- *)
(* C3                                                                      *)
(* ---------------------------------------------------------------------- *)

\* A concept whose implicit flag is absent or false.
Explicit(c) == c.t = "obj" /\ c.implicit \in {"absent", "false"}
Corresponds(c, d) == c.id.has /\ c.id.v # "" /\ c.id.v \in AllGroupIds(d)

\* C3: in every completed run on a document whose metadata decodes to an
\* object holding a concepts sequence, a valid result means every concept
\* whose implicit flag is absent or false has a non-empty id that is among
\* the ids of the document's group elements; and such a concept with a
\* missing or empty id, or an id outside that set, leaves at least one error.
C3_Correspondence ==
    \A i \in Calls :
        HasConceptsSequence(doc) =>
            /\ returned[i].is_valid =>
                   \A k \in DOMAIN ConceptsOf(doc) :
                       Explicit(ConceptsOf(doc)[k]) => Corresponds(ConceptsOf(doc)[k], doc)
            /\ (\E k \in DOMAIN ConceptsOf(doc) :
                    Explicit(ConceptsOf(doc)[k]) /\ ~Corresponds(ConceptsOf(doc)[k], doc))
                   => Len(ReturnedErrors(i)) >= 1

\* A valid result for a document with two explicit concepts, and groups
\* that carry their ids.
C3_Witness ==
    /\ returned # <<>>
    /\ returned[1].is_valid
    /\ HasConceptsSequence(doc)
    /\ Len(ConceptsOf(doc)) = 2
    /\ \A k \in DOMAIN ConceptsOf(doc) : Explicit(ConceptsOf(doc)[k])

(* ---------------------------------------------------------------------- *)
(* C4                                                                      *)
(* ---------------------------------------------------------------------- *)

\* C4: in every completed run, a valid result means every group element
\* carrying a data-concept attribute (of any value) has role="group",
\* tabindex="0" and a non-empty aria-label.
C4_SemanticGroupsComplete ==
    \A i \in Calls :
        returned[i].is_valid =>
            \A k \in DOMAIN doc.groups :
                doc.groups[k].dc.has =>
                    /\ doc.groups[k].role = Attr("group")
                    /\ doc.groups[k].tabindex = Attr("0")
                    /\ doc.groups[k].label.has /\ doc.groups[k].label.v # ""

(* ---------------------------------------------------------------------- *)
(* C7                                                                      *)
(* ---------------------------------------------------------------------- *)

MissingFields(d) == AllFields \ Decoded(d).keys

C8_RootAttributes ==
    \A i \in Calls :
        returned[i].is_valid =>
            /\ doc.role = Attr("img")
            /\ doc.labelledby.has /\ doc.labelledby.v # ""

(* ---------------------------------------------------------------------- *)
(* C10                                                                     *)
(* ---------------------------------------------------------------------- *)

\* C10: in every completed run on a document whose metadata text decodes as
\* JSON of any shape, no 'Unexpected error' entry (a caught runtime type
\* failure) is among the errors.
C10_NoRuntimeTypeFailure ==
    \A i \in Calls :
        (Parses(doc) /\ ExtractDecodes(doc)) =>
            "Unexpected error" \notin Kinds(ReturnedErrors(i))

(* ---------------------------------------------------------------------- *)
(* C6                                                                      *)
(* ---------------------------------------------------------------------- *)

ConceptMeetsRules(c, d) ==
    /\ c.t = "obj"
    /\ c.role.has
    /\ c.hasLabel
    /\ Explicit(c) => Corresponds(c, d)

GroupMeetsRules(g) ==
    g.dc.has => /\ g.role = Attr("group")
                /\ g.tabindex = Attr("0")
                /\ g.label.has /\ g.label.v # ""

\* The document meets every required rule of the profile (its group
\* elements all in one namespace), and the schema engine, where it is used,
\* accepts the metadata.
RequiredRulesMet(d, e) ==
    /\ Parses(d)
    /\ d.role = Attr("img")
    /\ d.labelledby.has /\ d.labelledby.v # ""
    /\ d.title.present /\ d.title.text \notin {"", " "}
    /\ d.desc.present /\ d.desc.text \notin {"", " "}
    /\ HasConceptsSequence(d)
    /\ AllFields \subseteq Decoded(d).keys
    /\ ConceptsOf(d) # <<>>
    /\ \A k \in DOMAIN ConceptsOf(d) : ConceptMeetsRules(ConceptsOf(d)[k], d)
    /\ \A k \in DOMAIN d.groups : GroupMeetsRules(d.groups[k])
    /\ \A j, k \in DOMAIN d.groups : d.groups[j].ns = d.groups[k].ns
    /\ (e.jsonschema /\ e.schemaFile = "ok") => e.verdict = "conforms"

\* Each advisory deviation of the document has its warning in ws.
AdvisoriesWarned(d, ws) ==
    /\ ~d.style.defs =>
           "No <defs> element found; embedded stylesheet recommended" \in Kinds(ws)
    /\ (d.style.defs /\ ~d.style.style) =>
           "No <style> element in <defs>; embedded stylesheet recommended" \in Kinds(ws)
    /\ (d.style.defs /\ d.style.style) =>
           /\ \A c \in {".f", ".k"} \ d.style.has :
                  F("Embedded stylesheet should define class", c, "", 0) \in Entries(ws)
           /\ \A q \in (StyleTokens \ {".f", ".k"}) \ d.style.has :
                  F("Embedded stylesheet should include", q, "", 0) \in Entries(ws)
    /\ ~d.title.id.has => F("should have an 'id' attribute", "title", "", 0) \in Entries(ws)
    /\ ~d.desc.id.has => F("should have an 'id' attribute", "desc", "", 0) \in Entries(ws)
    /\ d.meta.id # Attr("mf-accessibility") =>
           "<metadata> id should be 'mf-accessibility'" \in Kinds(ws)
    /\ d.rootTag.ns = "" => "SVG namespace not explicitly declared" \in Kinds(ws)
    /\ (\E k \in DOMAIN d.groups : ~d.groups[k].dc.has /\ d.groups[k].role = Attr("group")) =>
           "Group has role='group' but no data-concept attribute" \in Kinds(ws)
    /\ (\E k \in DOMAIN ConceptsOf(d) :
            ConceptsOf(d)[k].implicit = "true" /\ ConceptsOf(d)[k].id.has) =>
           "Concept is marked as implicit but has an 'id' field" \in Kinds(ws)

SameResults ==
    \A i, j \in Calls :
        /\ returned[i].is_valid = returned[j].is_valid
        /\ ReturnedErrors(i) = ReturnedErrors(j)
        /\ ReturnedWarnings(i) = ReturnedWarnings(j)

ReturnedListsKept ==
    \A i \in Calls :
        /\ heap'[returned[i].errors] = heap[returned[i].errors]
        /\ heap'[returned[i].warnings] = heap[returned[i].warnings]

\* C9: the calls made on one unchanged document, on a new validator or on
\* the same one, return the same validity and equal errors and warnings
\* sequences, and no step of a later call changes the sequences an earlier
\* call returned.
C9_Idempotent == [][ReturnedListsKept]_vars /\ []SameResults

\* Two completed calls on the same validator (no second pair of lists from a
\* constructor), with errors and warnings, its metadata field still set.
C9_Witness ==
    /\ Len(returned) = 2
    /\ Len(heap) = 6
    /\ metadata.set
    /\ Len(ReturnedErrors(2)) >= 2
    /\ Len(ReturnedWarnings(2)) >= 2
    /\ returned[1].errors # returned[2].errors

====
